---- MODULE Spec2Model ----
(***************************************************************************)
(* mkrawimg: the device specification validator (DeviceSpec::check) and    *)
(* the GPT / MBR partition table builders (ImageContext::partition_gpt,    *)
(* ImageContext::partition_mbr) of src/device.rs, run by the build job of  *)
(* src/main.rs; the job queue of try_main (SpecQueue); sync_filesystem of  *)
(* src/utils.rs (SpecSync).                                                *)
(*                                                                         *)
(* An Option<T> is the empty sequence (None) or a one-element sequence     *)
(* (Some).  A string is a sequence of characters; a partition label is     *)
(* the pair of its length in characters and its length in UTF-8 bytes.     *)
(***************************************************************************)
EXTENDS Integers, Sequences, FiniteSets, TLC

\* ------------------------------------------------------------------------
\* Bounds of the model
\* ------------------------------------------------------------------------
\* longest partition list of the numbering / usage / label / layout families
MaxParts == 3
\* largest partition number drawn for a partition
MaxNum == 5

\* ------------------------------------------------------------------------
\* Program constants
\* ------------------------------------------------------------------------
None == << >>
Some(x) == << x >>

\* device.rs:21
\* (a character is written by its name)
FORBIDDEN_CHARS ==
    {"apostrophe", "dquote", "backslash", "slash", "lbrace", "rbrace",
     "lbracket", "rbracket", "bang", "backtick", "star", "ampersand"}
\* the characters strings are drawn from: one plain ASCII letter, two of the
\* forbidden characters and one non-ASCII letter (U+00E9)
AsciiChars == {"a", "slash", "ampersand"}
Chars == AsciiChars \cup {"U+00E9"}

\* device.rs:240
MaxLabelLen == 35
\* device.rs:202
MbrCapacity == 4
\* device.rs:207
GptCapacity == 128
\* device.rs:337,363,374,468,476
OneMiB == 1048576

\* str::is_ascii
is_ascii(s) == \A k \in 1..Len(s) : s[k] \in AsciiChars
\* str::contains(&[char])
contains(s, chars) == \E k \in 1..Len(s) : s[k] \in chars

\* ------------------------------------------------------------------------
\* DeviceSpec::check (device.rs:154-251).  The result is "Ok" or the error
\* the function bails with.
\* ------------------------------------------------------------------------

\* Filesystem::check(&fs_label): the filesystem collaborator's verdict on the
\* filesystem label of a partition
filesystem_check(partition) ==
    IF partition.fs_label_valid THEN "Ok" ELSE "BadFsLabel"

\* device.rs:155-173: id, vendor, every alias and the compatible string
IdentityFields(d) ==
    {d.id, d.vendor}
        \cup (IF d.aliases = None THEN {}
              ELSE {d.aliases[1][k] : k \in 1..Len(d.aliases[1])})
        \cup (IF d.of_compatible = None THEN {} ELSE {d.of_compatible[1]})

\* device.rs:174-186: name and model
HumanFields(d) ==
    {d.name} \cup (IF d.model = None THEN {} ELSE {d.model[1]})

\* check_partition without the test for a second root partition
check_partition_any_roots(d, partition, root_part, last_partition_num) ==
    IF partition.part_type = "Swap" THEN "SwapNotAllowed"
    ELSE IF partition.num = 0 THEN "NumZero"
    ELSE IF partition.num < last_partition_num THEN "NotInOrder"
    ELSE IF partition.num = last_partition_num THEN "DuplicateNum"
    ELSE IF partition.label # None /\ d.partition_map = "MBR"
    THEN "LabelUnderMBR"
    ELSE IF partition.label # None /\ partition.label[1].bytes > MaxLabelLen
    THEN "LabelTooLong"
    ELSE filesystem_check(partition)

\* device.rs:218-245: one iteration of the scan, with the loop's two locals
\* as they are on entry
check_partition(d, partition, root_part, last_partition_num) ==
    IF partition.part_type = "Swap" THEN "SwapNotAllowed"
    ELSE IF partition.num = 0 THEN "NumZero"
    ELSE IF partition.num < last_partition_num THEN "NotInOrder"
    ELSE IF partition.num = last_partition_num THEN "DuplicateNum"
    ELSE IF partition.usage = "Rootfs" /\ root_part # None
    THEN "MoreThanOneRoot"
    ELSE IF partition.label # None /\ d.partition_map = "MBR"
    THEN "LabelUnderMBR"
    ELSE IF partition.label # None /\ partition.label[1].bytes > MaxLabelLen
    THEN "LabelTooLong"
    ELSE filesystem_check(partition)

\* device.rs:215-250: the scan of the partitions from position i on
RECURSIVE CheckPartitions(_, _, _, _)
CheckPartitions(d, i, root_part, last_partition_num) ==
    IF i > Len(d.partitions)
    THEN (IF root_part = None THEN "NoRoot" ELSE "Ok")
    ELSE LET partition == d.partitions[i]
             r == check_partition(d, partition, root_part, last_partition_num)
         IN  IF r # "Ok" THEN r
             ELSE CheckPartitions(d, i + 1,
                      IF partition.usage = "Rootfs" THEN Some(partition.num)
                      ELSE root_part,
                      partition.num)

\* check holding an MBR to the capacity of a GPT
check_one_capacity(d) ==
    IF \E f \in IdentityFields(d) : ~is_ascii(f) \/ contains(f, FORBIDDEN_CHARS)
    THEN "BadIdentity"
    ELSE IF \E f \in HumanFields(d) : contains(f, FORBIDDEN_CHARS)
    THEN "BadName"
    ELSE IF Len(d.partitions) = 0 THEN "NoPartition"
    ELSE IF d.num_partitions # Len(d.partitions) THEN "CountMismatch"
    ELSE IF Len(d.partitions) > GptCapacity THEN "TooManyGPT"
    ELSE CheckPartitions(d, 1, None, 0)

\* device.rs:154-251
check(d) ==
    IF \E f \in IdentityFields(d) : ~is_ascii(f) \/ contains(f, FORBIDDEN_CHARS)
    THEN "BadIdentity"
    ELSE IF \E f \in HumanFields(d) : contains(f, FORBIDDEN_CHARS)
    THEN "BadName"
    ELSE IF Len(d.partitions) = 0 THEN "NoPartition"
    ELSE IF d.num_partitions # Len(d.partitions) THEN "CountMismatch"
    ELSE IF d.partition_map = "MBR" /\ Len(d.partitions) > MbrCapacity
    THEN "TooManyMBR"
    ELSE IF d.partition_map = "GPT" /\ Len(d.partitions) > GptCapacity
    THEN "TooManyGPT"
    ELSE CheckPartitions(d, 1, None, 0)

\* ------------------------------------------------------------------------
\* The free-space allocator of the table libraries, as the builders call it
\* (device.rs:352,376 for GPT; device.rs:451,478 for MBR).  A table
\* holds the sector before its first usable one (lo), the sector after its
\* last usable one (hi), its alignment and its partitions, a function from the
\* used slot numbers to their entries.
\* ------------------------------------------------------------------------

\* the used slots of a table, ascending
RECURSIVE SlotsFrom(_, _)
SlotsFrom(table, n) ==
    IF \A m \in DOMAIN table : m < n THEN << >>
    ELSE IF n \in DOMAIN table THEN << n >> \o SlotsFrom(table, n + 1)
    ELSE SlotsFrom(table, n + 1)
Slots(table) == SlotsFrom(table, 1)

\* slice::sort_unstable on the boundary positions
RECURSIVE insert_sorted(_, _)
insert_sorted(x, s) ==
    IF s = << >> THEN << x >>
    ELSE IF x <= Head(s) THEN << x >> \o s
    ELSE << Head(s) >> \o insert_sorted(x, Tail(s))
RECURSIVE sort_unstable(_)
sort_unstable(s) ==
    IF s = << >> THEN << >> ELSE insert_sorted(Head(s), sort_unstable(Tail(s)))

\* u64::saturating_sub / u32::saturating_sub
saturating_sub(l, s) == IF l > s THEN l - s ELSE 0

\* the boundary positions of a table: the sector before the first usable one,
\* the first and last sector of every used entry, the sector after the last
\* usable one
RECURSIVE EntryPositions(_, _)
EntryPositions(table, slots) ==
    IF slots = << >> THEN << >>
    ELSE << table[Head(slots)].starting_lba, table[Head(slots)].ending_lba >>
         \o EntryPositions(table, Tail(slots))
Positions(table) ==
    sort_unstable(<< table.lo >>
                  \o EntryPositions(table.partitions, Slots(table.partitions))
                  \o << table.hi >>)

\* positions.chunks(2).map(|x| (x[0] + 1, x[1] - x[0] - 1)): the subtraction
\* underflows when the two positions of a chunk coincide
Chunks(positions) ==
    [k \in 1..(Len(positions) \div 2) |->
        << positions[2 * k - 1] + 1,
           positions[2 * k] - positions[2 * k - 1] - 1 >>]
ChunkUnderflow(positions) ==
    \E k \in 1..(Len(positions) \div 2) : positions[2 * k] = positions[2 * k - 1]

\* AlignSkip moving an aligned sector up to the next multiple as well
AlignSkipNext(i, align) == (i \div align + 1) * align - i
\* the distance from sector i up to the next multiple of align
AlignSkip(i, align) == ((i - 1) \div align + 1) * align - i

\* find_free_sectors: the free ranges (start, length) in ascending order, each
\* start moved up to a multiple of align and the ranges left empty dropped
HasLength(range) == range[2] > 0
Aligned(align, ranges) ==
    [k \in 1..Len(ranges) |->
        << ranges[k][1] + AlignSkip(ranges[k][1], align),
           saturating_sub(ranges[k][2], AlignSkip(ranges[k][1], align)) >>]
find_free_sectors(table) ==
    SelectSeq(Aligned(table.align,
                      SelectSeq(Chunks(Positions(table)), HasLength)),
              HasLength)

\* find_first_place: the start of the first free range of at least size
\* sectors, None when there is none
RECURSIVE FirstFit(_, _)
FirstFit(ranges, size) ==
    IF ranges = << >> THEN None
    ELSE IF Head(ranges)[2] >= size THEN Some(Head(ranges)[1])
    ELSE FirstFit(Tail(ranges), size)
find_first_place(table, size) == FirstFit(find_free_sectors(table), size)

\* ------------------------------------------------------------------------
\* Partition-type registry: PartitionType::to_uuid and PartitionType::to_byte.
\* A type given as a raw MBR byte has no GPT type GUID, a type given as a raw
\* GUID has no MBR type byte.
\* ------------------------------------------------------------------------
PartitionTypes == {"Linux", "EFI", "Swap", "Uuid", "Byte"}
to_uuid(part_type) == IF part_type = "Byte" THEN None ELSE Some(part_type)
to_byte(part_type) == IF part_type = "Uuid" THEN None ELSE Some(part_type)

\* ------------------------------------------------------------------------
\* Random identifiers.  A UUID is the sequence of three bytes: the two bytes
\* of its first (little-endian encoded) group, most significant first, and
\* one byte for its big-endian rest.  A u32 is the sequence of its most and
\* its least significant half.  The random generator of a run is one of the
\* streams of Entropy; the n-th UUID a run draws is new_v4(e, n).
\* ------------------------------------------------------------------------
Entropy == {1, 2}
\* Uuid::nil (device.rs:320)
NilUuid == << 0, 0, 0 >>
\* Uuid::new_v4 (device.rs:321,350)
new_v4(e, n) == << e, 3 + n, 10 * e + n >>
\* rand::random::<u32> (device.rs:433)
random(e) == << e, 3 >>
\* Uuid::to_bytes_le with the groups left in big-endian order
to_bytes_be(uuid) == uuid
\* Uuid::to_bytes_le (device.rs:332,351): the first group byte-swapped
to_bytes_le(uuid) == << uuid[2], uuid[1], uuid[3] >>
\* the GUID that the mixed-endian bytes of a GPT entry or header stand for
guid_of_bytes(bytes) == << bytes[2], bytes[1], bytes[3] >>
\* Uuid::to_string (device.rs:419): the hyphenated text, groups in order
to_string(uuid) == [text |-> uuid]
\* u32::to_le_bytes (device.rs:434)
to_le_bytes(id) == << id[2], id[1] >>
\* the disk signature a partition UUID of an MBR disk is derived from: the
\* four bytes at offset 440 read as a little-endian u32
signature_of_bytes(bytes) == << bytes[2], bytes[1] >>
\* format!("{:08x}-{:02x}", random_id, root_partnum) (device.rs:507)
format_partuuid(id, partnum) == [text |-> << id, "-", partnum >>]

\* ------------------------------------------------------------------------
\* One iteration of the builders' partition loops.  The result carries the
\* error the iteration bails with ("Ok" when it stores an entry), the
\* resolved size and start, how the start was resolved and the last free
\* range seen by the iteration.
\* ------------------------------------------------------------------------
Bail(err) ==
    [err |-> err, size |-> 0, starting_lba |-> 0, how |-> "none",
     last_free |-> << 0, 0 >>]
Resolved(size, start, how, last_free) ==
    [err |-> "Ok", size |-> size, starting_lba |-> start, how |-> how,
     last_free |-> last_free]

\* device.rs:370-380 and device.rs:471-482: the start of a partition of the
\* resolved size; align_first is 1 MiB in sectors
ResolveStart(partition, size, free_blocks, align_first, last_free) ==
    IF partition.start_sector # None
    THEN Resolved(size, partition.start_sector[1], "explicit", last_free)
    ELSE IF partition.num = 1
    THEN Resolved(size, align_first, "first", last_free)
    ELSE IF FirstFit(free_blocks, size) = None THEN Bail("NoSuitableSpace")
    ELSE Resolved(size, FirstFit(free_blocks, size)[1], "fit", last_free)

\* GptResolve taking a size of 0 for "the rest" wherever the partition stands
GptResolveAnyFill(partition, free_blocks, sector_size, num_partitions) ==
    IF partition.num = 0 THEN Bail("NumZero")
    ELSE IF free_blocks = << >> THEN Bail("NoFreeSpace")
    ELSE LET last_free == free_blocks[Len(free_blocks)] IN
         IF partition.size = 0 /\ last_free[2] < OneMiB \div sector_size
         THEN Bail("NotEnoughSpace")
         ELSE IF to_uuid(partition.part_type) = None THEN Bail("NoTypeGuid")
         ELSE ResolveStart(partition,
                  IF partition.size # 0 THEN partition.size ELSE last_free[2] - 1,
                  free_blocks, OneMiB \div sector_size, last_free)

\* device.rs:347-380: partition_gpt resolves one partition against the
\* free ranges of the table
GptResolve(partition, free_blocks, sector_size, num_partitions) ==
    IF partition.num = 0 THEN Bail("NumZero")
    ELSE IF free_blocks = << >> THEN Bail("NoFreeSpace")
    ELSE LET last_free == free_blocks[Len(free_blocks)] IN
         IF partition.size = 0 /\ partition.num # num_partitions
         THEN Bail("MaxSizedNotAtEnd")
         ELSE IF partition.size = 0 /\ last_free[2] < OneMiB \div sector_size
         THEN Bail("NotEnoughSpace")
         ELSE IF to_uuid(partition.part_type) = None THEN Bail("NoTypeGuid")
         ELSE ResolveStart(partition,
                  IF partition.size # 0 THEN partition.size ELSE last_free[2] - 1,
                  free_blocks, OneMiB \div sector_size, last_free)

\* MbrResolve without the bail on a partition numbered above 4
MbrResolveAnyNum(partition, free_blocks, sector_size, num_partitions) ==
    IF partition.num = 0 THEN Bail("NumZero")
    ELSE IF free_blocks = << >> THEN Bail("NoFreeSpace")
    ELSE LET last_free == free_blocks[Len(free_blocks)]
             sectors == IF partition.size # 0 THEN partition.size
                        ELSE last_free[2] - 1
         IN
         IF partition.size = 0 /\ partition.num # num_partitions
         THEN Bail("MaxSizedNotAtEnd")
         ELSE IF sectors < OneMiB \div sector_size THEN Bail("NotEnoughSpace")
         ELSE LET r == ResolveStart(partition, sectors, free_blocks,
                                    OneMiB \div sector_size, last_free)
              IN  IF r.err # "Ok" THEN r
                  ELSE IF to_byte(partition.part_type) = None
                  THEN Bail("NoTypeByte")
                  ELSE r

\* device.rs:445-488: partition_mbr resolves one partition against the
\* free ranges of the table
MbrResolve(partition, free_blocks, sector_size, num_partitions) ==
    IF partition.num = 0 THEN Bail("NumZero")
    ELSE IF partition.num > 4 THEN Bail("ExtendedUnsupported")
    ELSE IF free_blocks = << >> THEN Bail("NoFreeSpace")
    ELSE LET last_free == free_blocks[Len(free_blocks)]
             sectors == IF partition.size # 0 THEN partition.size
                        ELSE last_free[2] - 1
         IN
         IF partition.size = 0 /\ partition.num # num_partitions
         THEN Bail("MaxSizedNotAtEnd")
         ELSE IF sectors < OneMiB \div sector_size THEN Bail("NotEnoughSpace")
         ELSE LET r == ResolveStart(partition, sectors, free_blocks,
                                    OneMiB \div sector_size, last_free)
              IN  IF r.err # "Ok" THEN r
                  ELSE IF to_byte(partition.part_type) = None
                  THEN Bail("NoTypeByte")
                  ELSE r

\* ------------------------------------------------------------------------
\* The device specifications the build is run on
\* ------------------------------------------------------------------------
Str(c) == << c >>
\* a partition label of 35 ASCII characters, one of 36 ASCII characters and
\* one of 20 two-byte characters
Labels ==
    {[chars |-> 35, bytes |-> 35], [chars |-> 36, bytes |-> 36],
     [chars |-> 20, bytes |-> 40]}
\* partition sizes in sectors: fill the rest, below 1 MiB of 512-byte sectors,
\* 9 MiB of 4096-byte sectors, 100 MiB and 200 MiB of 512-byte sectors
Sizes == {0, 1000, 2304, 204800, 409600}
\* explicit start sectors
Starts == {413696}
\* what the device reports: its sector size and its length in sectors
SectorSizes == {512, 4096}
DiskSectors == {16, 8192, 1048576}
PartitionMaps == {"GPT", "MBR"}
Usages == {"Rootfs", "Boot", "Data"}

Part(num, size, start_sector, usage, part_type, label, fs_label_valid) ==
    [num |-> num, size |-> size, start_sector |-> start_sector,
     usage |-> usage, part_type |-> part_type, label |-> label,
     fs_label_valid |-> fs_label_valid]
\* a partition of 100 MiB placed by the allocator
PlainPart(num, usage) == Part(num, 204800, None, usage, "Linux", None, TRUE)
RootFirst(k) == IF k = 1 THEN "Rootfs" ELSE "Data"

Device(partition_map, num_partitions, partitions) ==
    [id |-> Str("a"), vendor |-> Str("a"), aliases |-> None,
     of_compatible |-> None, name |-> Str("a"), model |-> None,
     partition_map |-> partition_map, num_partitions |-> num_partitions,
     partitions |-> partitions]

\* identity and name fields of every kind, on a one-partition GPT layout
IdentityDevice(d) ==
    \E id \in {Str("a"), Str("slash"), Str("U+00E9")},
       vendor \in {Str("a"), Str("U+00E9")},
       aliases \in {None, Some(<< >>), Some(<< Str("a") >>),
                    Some(<< Str("a"), Str("ampersand") >>)},
       compatible \in {None, Some(Str("a")), Some(Str("slash"))},
       name \in {Str("a"), Str("U+00E9"), Str("slash")},
       model \in {None, Some(Str("U+00E9")), Some(Str("ampersand"))} :
        d = [Device("GPT", 1, << PlainPart(1, "Rootfs") >>) EXCEPT
                !.id = id, !.vendor = vendor, !.aliases = aliases,
                !.of_compatible = compatible, !.name = name, !.model = model]

\* every numbering of up to MaxParts partitions, with a declared count that
\* matches or not
NumberingDevice(d) ==
    \E n \in 0..MaxParts :
        \E m \in PartitionMaps, np \in {n, n + 1}, nums \in [1..n -> 0..MaxNum] :
            d = Device(m, np, [k \in 1..n |-> PlainPart(nums[k], RootFirst(k))])

\* every assignment of usages, with and without Swap partitions
UsageDevice(d) ==
    \E n \in 1..MaxParts :
        \E m \in PartitionMaps, us \in [1..n -> Usages],
           ty \in [1..n -> {"Linux", "Swap"}] :
            d = Device(m, n, [k \in 1..n |->
                    Part(k, 204800, None, us[k], ty[k], None, TRUE)])

\* every partition type on layouts of one or two partitions
TypeDevice(d) ==
    \E n \in 1..2 :
        \E m \in PartitionMaps, ty \in [1..n -> PartitionTypes] :
            d = Device(m, n, [k \in 1..n |->
                    Part(k, 204800, None, RootFirst(k), ty[k], None, TRUE)])

\* every labelling, with a valid or an invalid filesystem label on the first
\* partition
LabelDevice(d) ==
    \E n \in 1..MaxParts :
        \E m \in PartitionMaps, fs \in BOOLEAN,
           lb \in [1..n -> {None} \cup {Some(l) : l \in Labels}] :
            d = Device(m, n, [k \in 1..n |->
                    Part(k, 204800, None, RootFirst(k), "Linux", lb[k],
                         k > 1 \/ fs)])

\* as many partitions as an MBR holds, one more, and one more than a GPT
\* holds
CapacityDevice(d) ==
    \E m \in PartitionMaps,
       n \in {MbrCapacity, MbrCapacity + 1, GptCapacity + 1} :
        d = Device(m, n, [k \in 1..n |->
                Part(k, 2048, None, RootFirst(k), "Linux", None, TRUE)])

\* a partition in the last slot of a GPT, and one numbered past it
HighNumDevice(d) ==
    \E m \in PartitionMaps, num \in {GptCapacity, GptCapacity + 1} :
        d = Device(m, 1, << PlainPart(num, "Rootfs") >>)

\* the strictly increasing numberings of n partitions within 1..MaxNum
Increasing(n) ==
    {nums \in [1..n -> 1..MaxNum] : \A k \in 1..(n - 1) : nums[k] < nums[k + 1]}
\* every layout: sizes, numbering and at most one explicit start, the root
\* partition last
LayoutDevice(d) ==
    \E n \in 1..MaxParts :
        \E m \in PartitionMaps, nums \in Increasing(n), sz \in [1..n -> Sizes],
           x \in 0..n, start \in Starts :
            d = Device(m, n, [k \in 1..n |->
                    Part(nums[k], sz[k], IF k = x THEN Some(start) ELSE None,
                         IF k = n THEN "Rootfs" ELSE "Data", "Linux", None,
                         TRUE)])


\* ------------------------------------------------------------------------
\* State of one build job
\* ------------------------------------------------------------------------
VARIABLES
    device,         \* the DeviceSpec of the job
    pc,             \* where the job is
    check_result,   \* what DeviceSpec::check returned, "none" before it ran
    sector_size,    \* the sector size the device reported
    new_table,      \* the in-memory table of the running builder
    idx,            \* the position of the partition loop in device.partitions
    io,             \* the operations performed on the device, in order
    error,          \* the error the job failed with
    placed,         \* the partitions resolved so far, in order
    root_partnum,   \* the builder's local root_partnum
    root_partuuid,  \* the builder's local root_partuuid
    entropy,        \* the random stream the builder draws from, 0 before it
                    \* has drawn
    pm_data,        \* the PartitionMapData the builder returned, if any
    queue,          \* the devices of the jobs queued after this one
    sync            \* the call of sync_filesystem in progress

vars == << device, pc, check_result, sector_size, new_table, idx, io, error,
           placed, root_partnum, root_partuuid, entropy, pm_data, queue,
           sync >>

\* no call of sync_filesystem is in progress
SyncIdle ==
    [pc |-> "idle", nul |-> FALSE, inherited |-> {}, fds |-> {}, fd |-> -1,
     result |-> 0, calls |-> << >>, ret |-> "none"]

NoTable ==
    [lo |-> 0, hi |-> 0, align |-> 0, disk_id |-> << >>, partitions |-> << >>]

Init ==
    /\ \/ IdentityDevice(device)
       \/ NumberingDevice(device)
       \/ UsageDevice(device)
       \/ TypeDevice(device)
       \/ LabelDevice(device)
       \/ CapacityDevice(device)
       \/ HighNumDevice(device)
       \/ LayoutDevice(device)
    /\ pc = "queued"
    /\ check_result = "none"
    /\ sector_size = 0
    /\ new_table = NoTable
    /\ idx = 0
    /\ io = << >>
    /\ error = "none"
    /\ placed = << >>
    /\ root_partnum = 0
    /\ root_partuuid = << >>
    /\ entropy = 0
    /\ pm_data = None
    /\ queue = << >>
    /\ sync = SyncIdle

Fail(err) ==
    /\ pc' = "failed"
    /\ error' = err

\* mbrman's default alignment, which partition_mbr leaves as it is
\* (device.rs:435)
DEFAULT_ALIGN == 2048
\* the sectors taken by the 128 entries of 128 bytes of a GPT
partition_array_size(ss) == (128 * 128 - 1) \div ss + 1

\* GPT::new_from and the assignment of align (device.rs:333-337): the table
\* of a device of len sectors
GptNewTable(ss, len, disk_guid) ==
    [lo |-> (2 + partition_array_size(ss)) - 1,
     hi |-> (len - partition_array_size(ss) - 2) + 1,
     align |-> OneMiB \div ss,
     disk_id |-> disk_guid,
     partitions |-> << >>]
\* MBR::new_from (device.rs:435)
MbrNewTable(ss, len, disk_signature) ==
    [lo |-> 0, hi |-> len, align |-> DEFAULT_ALIGN,
     disk_id |-> disk_signature, partitions |-> << >>]

\* Execute going on to the builder whatever check returned
ExecuteUnchecked ==
    /\ pc = "queued"
    /\ check_result' = check(device)
    /\ pc' = "validated"
    /\ UNCHANGED << device, sector_size, new_table, idx, io, placed,
                    root_partnum, error, root_partuuid, entropy, pm_data,
                    queue,
                    sync >>

\* The job validates its device before anything else: a device that fails
\* DeviceSpec::check is not built.
Execute ==
    /\ pc = "queued"
    /\ check_result' = check(device)
    /\ IF check(device) = "Ok"
       THEN pc' = "validated" /\ error' = error
       ELSE Fail(check(device))
    /\ UNCHANGED << device, sector_size, new_table, idx, io, placed,
                    root_partnum, root_partuuid, entropy, pm_data, queue,
                    sync >>

\* device.rs:310-345 and device.rs:429-443: open the device, query its sector
\* size, draw the random disk GUID or disk signature, create the table in
\* memory
OpenDevice(map, loop) ==
    /\ pc = "validated"
    /\ device.partition_map = map
    /\ \E ss \in SectorSizes, len \in DiskSectors, e \in Entropy,
          fault \in {"none", "open", "get_sector_size"} :
          IF fault = "open"
          THEN /\ Fail("OpenFailed")
               /\ io' = Append(io, "open")
               /\ UNCHANGED << sector_size, new_table, idx, root_partuuid,
                               entropy >>
          ELSE IF fault = "get_sector_size"
          THEN /\ Fail("SectorSizeFailed")
               /\ io' = io \o << "open", "get_sector_size" >>
               /\ UNCHANGED << sector_size, new_table, idx, root_partuuid,
                               entropy >>
          ELSE /\ io' = io \o << "open", "get_sector_size", "seek_end" >>
               /\ sector_size' = ss
               /\ entropy' = e
               /\ root_partuuid' = IF map = "GPT" THEN NilUuid ELSE << >>
               /\ IF map = "GPT" /\ len < partition_array_size(ss) + 2
                  THEN /\ Fail("NewTableFailed")
                       /\ UNCHANGED << new_table, idx >>
                  ELSE /\ pc' = loop
                       /\ new_table' =
                              IF map = "GPT"
                              THEN GptNewTable(ss, len,
                                               to_bytes_le(new_v4(e, 0)))
                              ELSE MbrNewTable(ss, len,
                                               to_le_bytes(random(e)))
                       /\ idx' = 1
                       /\ error' = error
    /\ UNCHANGED << device, check_result, placed, root_partnum, pm_data,
                    queue,
                    sync >>

GptOpen == OpenDevice("GPT", "gpt_loop")
MbrOpen == OpenDevice("MBR", "mbr_loop")

\* the partition loop leaving one partition out
LoopDoneEarly(i, partitions) == i > Len(partitions) - 1
\* device.rs:346,409 and device.rs:444,509: the partition loop has gone through
\* every partition
LoopDone(i, partitions) == i > Len(partitions)

\* StoreEntry putting the entry as many sectors further as the second byte
\* of its GUID says
Shift(guid) == IF guid = << >> THEN 0 ELSE guid[2]
StoreEntryByGuid(table, partition, r, guid) ==
    [table EXCEPT !.partitions =
        [n \in DOMAIN table.partitions \cup {partition.num} |->
            IF n = partition.num
            THEN [starting_lba |-> r.starting_lba + Shift(guid),
                  ending_lba |-> r.starting_lba + Shift(guid) + r.size - 1,
                  sectors |-> r.size,
                  part_type |-> partition.part_type,
                  name |-> partition.label,
                  guid |-> guid]
            ELSE table.partitions[n]]]

\* new_table[partition.num] = part (device.rs:396-404, device.rs:496-504)
StoreEntry(table, partition, r, guid) ==
    [table EXCEPT !.partitions =
        [n \in DOMAIN table.partitions \cup {partition.num} |->
            IF n = partition.num
            THEN [starting_lba |-> r.starting_lba,
                  ending_lba |-> r.starting_lba + r.size - 1,
                  sectors |-> r.size,
                  part_type |-> partition.part_type,
                  name |-> partition.label,
                  guid |-> guid]
            ELSE table.partitions[n]]]

\* What one iteration of a builder's partition loop comes to (device.rs:346-409,
\* device.rs:444-509): the resolution of the partition, its error replaced by
\* the panic the iteration ends with when there is one.  find_free_sectors
\* subtracts two equal positions when entries of the table overlap: the
\* iteration then panics (a build with overflow checks; without them the
\* length wraps around and the iteration goes on with a free range of that
\* length, which the model does not follow).  Sizes and starts stay below
\* 2^31, so the conversions to u32 of partition_mbr always succeed.  Storing
\* an entry past the capacity of the table panics.
Panics == {"SubtractOverflow", "IndexOutOfRange"}
Iteration(loop, capacity, table, partition, ss, num_partitions) ==
    LET free_blocks == find_free_sectors(table)
        r == IF loop = "gpt_loop"
             THEN GptResolve(partition, free_blocks, ss, num_partitions)
             ELSE MbrResolve(partition, free_blocks, ss, num_partitions)
    IN  IF r.err \notin {"NumZero", "ExtendedUnsupported"}
           /\ ChunkUnderflow(Positions(table))
        THEN Bail("SubtractOverflow")
        ELSE IF r.err = "Ok" /\ partition.num > capacity
        THEN Bail("IndexOutOfRange")
        ELSE r

\* the partition GUID an iteration draws: partition_gpt draws one per
\* partition (device.rs:350), partition_mbr none
DrawnGuid(loop, e, i) ==
    IF loop = "gpt_loop" THEN new_v4(e, i) ELSE << >>

\* one iteration of a builder's partition loop
Place(loop, capacity) ==
    /\ pc = loop
    /\ ~LoopDone(idx, device.partitions)
    /\ LET partition == device.partitions[idx]
           r == Iteration(loop, capacity, new_table, partition, sector_size,
                          device.num_partitions)
           rand_part_uuid == DrawnGuid(loop, entropy, idx)
       IN  IF r.err \in Panics
           THEN /\ pc' = "panicked"
                /\ error' = r.err
                /\ UNCHANGED << new_table, idx, placed, root_partnum,
                                root_partuuid >>
           ELSE IF r.err # "Ok"
           THEN /\ Fail(r.err)
                /\ UNCHANGED << new_table, idx, placed, root_partnum,
                                root_partuuid >>
           ELSE /\ new_table' =
                       StoreEntry(new_table, partition, r,
                                  IF loop = "gpt_loop"
                                  THEN to_bytes_le(rand_part_uuid)
                                  ELSE << >>)
                /\ placed' = Append(placed,
                       [num |-> partition.num, pos |-> idx,
                        starting_lba |-> r.starting_lba, size |-> r.size,
                        how |-> r.how, last_free |-> r.last_free,
                        free_blocks |-> find_free_sectors(new_table)])
                /\ root_partnum' = IF partition.usage = "Rootfs"
                                   THEN partition.num ELSE root_partnum
                /\ root_partuuid' =
                       IF partition.usage # "Rootfs" THEN root_partuuid
                       ELSE IF loop = "gpt_loop" THEN rand_part_uuid
                       ELSE format_partuuid(random(entropy), partition.num)
                /\ idx' = idx + 1
                /\ UNCHANGED << pc, error >>
    /\ UNCHANGED << device, check_result, sector_size, io, entropy, pm_data,
                    queue,
                    sync >>

GptPlace == Place("gpt_loop", GptCapacity)
MbrPlace == Place("mbr_loop", MbrCapacity)

\* GPT::check_partition_boundaries, called by GPT::write_into (device.rs:415):
\* taken by ascending start, every entry starts at or after the sector that
\* follows its predecessor (the first usable sector for the first one), and
\* the last one ends inside the usable range
RECURSIVE BoundariesFrom(_, _, _)
BoundariesFrom(table, slots, first_available) ==
    IF slots = {} THEN first_available <= table.hi
    ELSE LET n == CHOOSE m \in slots : \A o \in slots :
                      table.partitions[m].starting_lba
                          <= table.partitions[o].starting_lba
         IN  /\ table.partitions[n].starting_lba >= first_available
             /\ BoundariesFrom(table, slots \ {n},
                               table.partitions[n].ending_lba + 1)
check_partition_boundaries(table) ==
    /\ \A n \in DOMAIN table.partitions :
           table.partitions[n].ending_lba >= table.partitions[n].starting_lba
    /\ BoundariesFrom(table, DOMAIN table.partitions, table.lo + 1)

\* a write to the device or the flush, which the device may fail
DeviceStep(from, op, to) ==
    /\ pc = from
    /\ io' = Append(io, op)
    /\ \E ok \in BOOLEAN :
          IF ok THEN pc' = to /\ error' = error ELSE Fail("IoFailed")
    /\ UNCHANGED << device, check_result, sector_size, new_table, idx, placed,
                    root_partnum, root_partuuid, entropy, pm_data, queue,
                    sync >>

\* device.rs:414
GptWriteProtectiveMbr ==
    /\ LoopDone(idx, device.partitions)
    /\ DeviceStep("gpt_loop", "write_protective_mbr", "gpt_write")
\* device.rs:415: GPT::write_into checks the boundaries of the entries and
\* writes nothing when they overlap or leave the usable range
GptWriteTable ==
    IF check_partition_boundaries(new_table)
    THEN DeviceStep("gpt_write", "write_table", "sync")
    ELSE /\ pc = "gpt_write"
         /\ Fail("InvalidPartitionBoundaries")
         /\ UNCHANGED << device, check_result, sector_size, new_table, idx,
                         io, placed, root_partnum, root_partuuid, entropy,
                         pm_data, queue,
                         sync >>
\* device.rs:511
MbrWriteTable ==
    /\ LoopDone(idx, device.partitions)
    /\ DeviceStep("mbr_loop", "write_table", "sync")
\* the PartitionMapData of device.rs:417-424 and device.rs:513-520
PartitionMapData(map, partnum, partuuid) ==
    [root_partnum |-> partnum,
     root_partuuid |-> IF map = "GPT" THEN to_string(partuuid) ELSE partuuid,
     efi_partnum |-> None, efi_partuuid |-> None,
     boot_partnum |-> None, boot_partuuid |-> None]
\* a builder returning its PartitionMapData without the flush
ReturnUnflushed ==
    /\ pc = "sync"
    /\ pc' = "done"
    /\ pm_data' = Some(PartitionMapData(device.partition_map, root_partnum,
                                        root_partuuid))
    /\ UNCHANGED << device, check_result, sector_size, new_table, idx, io,
                    error, placed, root_partnum, root_partuuid, entropy,
                    queue,
                    sync >>
\* device.rs:416-425 and device.rs:512-521: the flush, and the
\* PartitionMapData returned when it succeeds
SyncAll ==
    /\ pc = "sync"
    /\ io' = Append(io, "sync_all")
    /\ \E ok \in BOOLEAN :
          IF ok
          THEN /\ pc' = "done"
               /\ error' = error
               /\ pm_data' = Some(PartitionMapData(device.partition_map,
                                                   root_partnum, root_partuuid))
          ELSE /\ Fail("IoFailed")
               /\ pm_data' = pm_data
    /\ UNCHANGED << device, check_result, sector_size, new_table, idx, placed,
                    root_partnum, root_partuuid, entropy, queue,
                    sync >>

Next ==
    \/ Execute
    \/ GptOpen
    \/ GptPlace
    \/ GptWriteProtectiveMbr
    \/ GptWriteTable
    \/ MbrOpen
    \/ MbrPlace
    \/ MbrWriteTable
    \/ SyncAll

Spec == Init /\ [][Next]_vars

\* ------------------------------------------------------------------------
\* The job queue of try_main (main.rs:331-413): the jobs are executed in the
\* order of the queue.
\* ------------------------------------------------------------------------
\* longest queue behind the first job; the queue holds several jobs
MaxQueue == 2
\* the devices of the queued jobs: one partition, on either map, of a type
\* every map knows, of a type GPT has no GUID for, or a Swap partition, which
\* check rejects
QueueDevices ==
    {Device(m, 1, << Part(1, 204800, None, "Rootfs", ty, None, TRUE) >>) :
        m \in PartitionMaps, ty \in {"Linux", "Byte", "Swap"}}

InitQueue ==
    /\ device \in QueueDevices
    /\ \E n \in 1..MaxQueue :
          \E q \in [1..n -> QueueDevices] :
              queue = q
    /\ pc = "queued"
    /\ check_result = "none"
    /\ sector_size = 0
    /\ new_table = NoTable
    /\ idx = 0
    /\ io = << >>
    /\ error = "none"
    /\ placed = << >>
    /\ root_partnum = 0
    /\ root_partuuid = << >>
    /\ entropy = 0
    /\ pm_data = None
    /\ sync = SyncIdle

\* main.rs:409-413: the job returned Ok, the loop goes on to the next job of
\* the queue
ExecuteNext ==
    /\ pc = "done"
    /\ queue # << >>
    /\ device' = Head(queue)
    /\ queue' = Tail(queue)
    /\ pc' = "queued"
    /\ check_result' = "none"
    /\ sector_size' = 0
    /\ new_table' = NoTable
    /\ idx' = 0
    /\ io' = << >>
    /\ error' = "none"
    /\ placed' = << >>
    /\ root_partnum' = 0
    /\ root_partuuid' = << >>
    /\ entropy' = 0
    /\ pm_data' = None
    /\ UNCHANGED sync

\* main.rs:412 and main.rs:171-218: the '?' on a failed job returns from
\* try_main with the jobs left in the queue, and main exits with status 1;
\* after the last job try_main returns Ok and the process exits
ExitProcess ==
    /\ \/ pc = "failed"
       \/ pc = "done" /\ queue = << >>
    /\ pc' = "exited"
    /\ UNCHANGED << device, check_result, sector_size, new_table, idx, io,
                    error, placed, root_partnum, root_partuuid, entropy,
                    pm_data, queue,
                    sync >>

NextQueue ==
    \/ Next
    \/ ExecuteNext
    \/ ExitProcess

SpecQueue == InitQueue /\ [][NextQueue]_vars

\* ------------------------------------------------------------------------
\* sync_filesystem (utils.rs:236-270).  The call in progress holds: where
\* it is (pc), whether the path has a NUL byte (nul), the descriptors the
\* process had open on entry (inherited) and has open now (fds), what open
\* returned (fd, -1 before the call and on failure), what syncfs returned
\* (result), the system calls made, in order, with their descriptor (calls),
\* and what the function returned (ret).
\* ------------------------------------------------------------------------
\* highest descriptor of the process; open fails when every one is in use
MaxFd == 3
Descriptors == 0..MaxFd
\* open(2) returns the lowest descriptor not in use
LowestFree(fds) ==
    CHOOSE n \in Descriptors : n \notin fds /\ \A m \in 0..(n - 1) : m \in fds

InitSync ==
    /\ device = Device("GPT", 1, << PlainPart(1, "Rootfs") >>)
    /\ pc = "queued"
    /\ check_result = "none"
    /\ sector_size = 0
    /\ new_table = NoTable
    /\ idx = 0
    /\ io = << >>
    /\ error = "none"
    /\ placed = << >>
    /\ root_partnum = 0
    /\ root_partuuid = << >>
    /\ entropy = 0
    /\ pm_data = None
    /\ queue = << >>
    /\ \E nul \in BOOLEAN, inherited \in SUBSET Descriptors :
          sync = [SyncIdle EXCEPT !.pc = "start", !.nul = nul,
                                  !.inherited = inherited, !.fds = inherited]

job_vars ==
    << device, pc, check_result, sector_size, new_table, idx, io, error,
       placed, root_partnum, root_partuuid, entropy, pm_data, queue >>

\* utils.rs:237-250: the path is made a C string, which fails on a NUL byte,
\* and opened; the function returns an error when open returns a negative
\* value
SyncFsOpen ==
    /\ sync.pc = "start"
    /\ IF sync.nul
       THEN sync' = [sync EXCEPT !.pc = "returned", !.ret = "Err"]
       ELSE \E ok \in BOOLEAN :
               IF ok /\ Descriptors \ sync.fds # {}
               THEN sync' = [sync EXCEPT
                                !.pc = "opened",
                                !.fd = LowestFree(sync.fds),
                                !.fds = sync.fds \cup {LowestFree(sync.fds)},
                                !.calls = Append(sync.calls, << "open" >>)]
               ELSE sync' = [sync EXCEPT
                                !.pc = "returned", !.ret = "Err", !.fd = -1,
                                !.calls = Append(sync.calls, << "open" >>)]
    /\ UNCHANGED job_vars

\* utils.rs:252-253
SyncFsSyncfs ==
    /\ sync.pc = "opened"
    /\ \E r \in {0, -1} :
          sync' = [sync EXCEPT !.pc = "synced", !.result = r,
                               !.calls = Append(sync.calls,
                                                << "syncfs", sync.fd >>)]
    /\ UNCHANGED job_vars

\* SyncFsClose returning the error of syncfs without closing the descriptor
SyncFsCloseOnSuccess ==
    /\ sync.pc = "synced"
    /\ IF sync.result # 0
       THEN sync' = [sync EXCEPT !.pc = "returned", !.ret = "Err"]
       ELSE sync' = [sync EXCEPT
                        !.pc = "returned", !.ret = "Ok",
                        !.fds = sync.fds \ {sync.fd},
                        !.calls = Append(sync.calls, << "close", sync.fd >>)]
    /\ UNCHANGED job_vars

\* utils.rs:254-269: the descriptor is closed, after a failed syncfs
\* (255-258) as after a successful one (265-268); the function panics when
\* close fails, and returns the error of syncfs or Ok otherwise.  A close
\* that fails may or may not have released the descriptor.
SyncFsClose ==
    /\ sync.pc = "synced"
    /\ \E c \in {0, -1}, released \in BOOLEAN :
          /\ c = 0 => released
          /\ sync' = [sync EXCEPT
                         !.pc = IF c # 0 THEN "panicked" ELSE "returned",
                         !.ret = IF c # 0 THEN "none"
                                 ELSE IF sync.result # 0 THEN "Err" ELSE "Ok",
                         !.fds = IF released THEN sync.fds \ {sync.fd}
                                 ELSE sync.fds,
                         !.calls = Append(sync.calls, << "close", sync.fd >>)]
    /\ UNCHANGED job_vars

NextSync ==
    \/ SyncFsOpen
    \/ SyncFsSyncfs
    \/ SyncFsClose

SpecSync == InitSync /\ [][NextSync]_vars

\* ------------------------------------------------------------------------
\* Properties of DeviceSpec::check
\* ------------------------------------------------------------------------
Checked == check_result # "none"
GptBuild == device.partition_map = "GPT"
Accepted == check_result = "Ok"
NumParts == Len(device.partitions)
RootParts == {k \in 1..NumParts : device.partitions[k].usage = "Rootfs"}
StrictlyIncreasing ==
    \A k \in 1..(NumParts - 1) :
        device.partitions[k].num < device.partitions[k + 1].num
StartsAtOne == NumParts > 0 => device.partitions[1].num = 1
FsLabelsValid == \A k \in 1..NumParts : device.partitions[k].fs_label_valid
IdentityOk ==
    /\ \A f \in IdentityFields(device) :
           is_ascii(f) /\ ~contains(f, FORBIDDEN_CHARS)
    /\ \A f \in HumanFields(device) : ~contains(f, FORBIDDEN_CHARS)
LabelsOk ==
    \A k \in 1..NumParts :
        LET l == device.partitions[k].label IN
        IF device.partition_map = "MBR" THEN l = None
        ELSE l # None => l[1].chars <= 35

\* C1: with valid filesystem labels, check returns Ok exactly when the
\* declared count matches, exactly one partition is the Rootfs, no partition
\* is Swap, the numbers start at 1 and strictly increase, no partition is
\* labelled under MBR and every label has at most 35 characters under GPT,
\* and the identity and name fields keep to their character sets.
C1_AcceptsExactlyTheValid ==
    (Checked /\ FsLabelsValid) =>
        (Accepted <=>
            /\ device.num_partitions = NumParts
            /\ Cardinality(RootParts) = 1
            /\ \A k \in 1..NumParts : device.partitions[k].part_type # "Swap"
            /\ StartsAtOne
            /\ StrictlyIncreasing
            /\ LabelsOk
            /\ IdentityOk)

\* C9: whenever check returns Ok, exactly one partition has usage Rootfs.
C9_ExactlyOneRootfs == Accepted => Cardinality(RootParts) = 1
\* C9 witness: a spec with one Rootfs partition among several was accepted
C9_WitnessAccepted ==
    Accepted /\ NumParts > 1 /\ Cardinality(RootParts) = 1

\* C10: whenever check returns Ok, the first partition has num 1 and every
\* later partition a num strictly greater than its predecessor's.
C10_NumbersFromOneIncreasing == Accepted => (StartsAtOne /\ StrictlyIncreasing)

Capacity == IF device.partition_map = "MBR" THEN MbrCapacity ELSE GptCapacity

\* C11: check rejects a spec whose partition list is empty, whose
\* num_partitions differs from the length of the list, or whose list is longer
\* than 4 under MBR or 128 under GPT; whenever it returns Ok, num_partitions
\* is the length of the list, which lies between 1 and the capacity of the
\* partition map.
C11_CountWithinCapacity ==
    /\ (Checked /\ NumParts = 0) => ~Accepted
    /\ (Checked /\ device.num_partitions # NumParts) => ~Accepted
    /\ (Checked /\ NumParts > Capacity) => ~Accepted
    /\ Accepted =>
           /\ device.num_partitions = NumParts
           /\ NumParts >= 1
           /\ NumParts <= Capacity
\* C11 witness: check rejected a GPT spec of 129 partitions for its count
C11_WitnessTooManyGpt ==
    GptBuild /\ NumParts = GptCapacity + 1 /\ check_result = "TooManyGPT"

Labelled == {k \in 1..NumParts : device.partitions[k].label # None}

\* C12: check rejects any partition label under MBR, and under GPT it rejects
\* a label exactly when the label is longer than 35 characters: a spec is
\* never rejected for the length of a label of at most 35 characters,
\* non-ASCII ones included.
C12_LabelLimitInCharacters ==
    /\ (Checked /\ ~GptBuild /\ Labelled # {}) => ~Accepted
    /\ (Checked /\ GptBuild
          /\ \E k \in Labelled : device.partitions[k].label[1].chars > 35)
           => ~Accepted
    /\ check_result = "LabelTooLong" =>
           \E k \in Labelled : device.partitions[k].label[1].chars > 35

\* ------------------------------------------------------------------------
\* Properties of the build job
\* ------------------------------------------------------------------------
BuilderRan ==
    \/ io # << >>
    \/ pc \in {"gpt_loop", "mbr_loop", "gpt_write", "sync", "done"}
    \/ new_table # NoTable

WriteOps == {"write_protective_mbr", "write_table"}
Written == \E k \in 1..Len(io) : io[k] \in WriteOps
\* the errors a builder bails with while it resolves a partition
ResolveErrors ==
    {"NumZero", "ExtendedUnsupported", "NoFreeSpace", "MaxSizedNotAtEnd",
     "NotEnoughSpace", "NoSuitableSpace", "NoTypeGuid", "NoTypeByte"}
AllInTable ==
    /\ idx > NumParts
    /\ \A k \in 1..NumParts :
           device.partitions[k].num \in DOMAIN new_table.partitions

\* C3: when a builder fails while it resolves a partition nothing has been
\* written to the device; every write happens after all the partitions have
\* been resolved and stored in the in-memory table.
C3_NoWriteBeforeAllResolved ==
    /\ (pc = "failed" /\ error \in ResolveErrors) => ~Written
    /\ Written => AllInTable
\* C3 witness: a builder failed for want of space after it had resolved a
\* partition
C3_WitnessFailedResolving ==
    pc = "failed" /\ error = "NoSuitableSpace" /\ Len(placed) >= 1 /\ ~Written

FillParts == {k \in 1..NumParts : device.partitions[k].size = 0}
TwoFill == Cardinality(FillParts) >= 2

\* C4 as stated: a spec with two partitions of size 0 is rejected before the
\* device is opened or queried.
C4_RejectedBeforeDeviceIo == TwoFill => io = << >>
\* C4 amended: a spec with two partitions of size 0 is never built, and
\* nothing is ever written to the device for it.
C4_TwoFillNeverWritten ==
    TwoFill => (~Written /\ pc \notin {"gpt_write", "sync", "done"})
\* C4 witness: the builder rejected a size-0 partition of a spec with two of
\* them, after it had opened and queried the device
C4_WitnessRejectedInBuilder ==
    TwoFill /\ pc = "failed" /\ error = "MaxSizedNotAtEnd" /\ Len(io) = 3

\* C5: in a successful build a partition of size 0 is the highest-numbered
\* (last) partition and its resolved size is the length of the last free range
\* minus one; a size-0 partition that is the last one is never rejected as
\* misplaced.
C5_FillIsLastAndTakesTheRest ==
    /\ pc = "done" =>
           \A k \in FillParts :
               /\ k = NumParts
               /\ placed[k].size = placed[k].last_free[2] - 1
    /\ (pc = "failed" /\ error = "MaxSizedNotAtEnd") => idx # NumParts

\* C6: in both builders the first partition of the spec, when it has no
\* start_sector, is placed at 1048576 / sector_size.
C6_FirstPartitionAtOneMiB ==
    \A k \in 1..Len(placed) :
        (placed[k].pos = 1 /\ device.partitions[1].start_sector = None)
            => placed[k].starting_lba = OneMiB \div sector_size

\* C7: in both builders every start that is not an explicit start_sector is a
\* multiple of 1048576 / sector_size, and the allocator's alignment is
\* 1048576 / sector_size.
C7_ComputedStartsAligned ==
    /\ \A k \in 1..Len(placed) :
           placed[k].how # "explicit"
               => placed[k].starting_lba % (OneMiB \div sector_size) = 0
    /\ new_table # NoTable => new_table.align = OneMiB \div sector_size

NoExplicitStart ==
    \A k \in 1..NumParts : device.partitions[k].start_sector = None
SizesWholeMiB ==
    \A k \in 1..NumParts :
        device.partitions[k].size % (OneMiB \div sector_size) = 0
\* entry e of placed starts at the lowest free range that holds its size
FirstFitAt(e) ==
    \E j \in 1..Len(e.free_blocks) :
        /\ e.free_blocks[j][1] = e.starting_lba
        /\ e.free_blocks[j][2] >= e.size
        /\ \A h \in 1..(j - 1) : e.free_blocks[h][2] < e.size
AllFirstFit ==
    \A k \in 1..Len(placed) :
        (placed[k].pos > 1 /\ placed[k].how # "explicit") => FirstFitAt(placed[k])
Contiguous ==
    \A k \in 1..(Len(placed) - 1) :
        placed[k + 1].starting_lba = placed[k].starting_lba + placed[k].size

InLoop == pc \in {"gpt_loop", "mbr_loop"} /\ ~LoopDone(idx, device.partitions)
\* the partition the loop is at and the free ranges of the table it has built
Current == device.partitions[idx]
CurrentFree == find_free_sectors(new_table)
HasBothTypes(partition) ==
    to_uuid(partition.part_type) # None /\ to_byte(partition.part_type) # None

\* C13: on the same sector size and the same free ranges, partition_mbr
\* resolves the start and the size of a partition (numbered 1 to 4, of a type
\* both maps know) as partition_gpt does: both fail or both succeed, and
\* with the same start and the same size.
C13_MbrResolvesAsGpt ==
    (InLoop /\ Current.num \in 1..MbrCapacity /\ HasBothTypes(Current)) =>
        LET g == GptResolve(Current, CurrentFree, sector_size,
                            device.num_partitions)
            m == MbrResolve(Current, CurrentFree, sector_size,
                            device.num_partitions)
        IN  /\ (g.err = "Ok") <=> (m.err = "Ok")
            /\ g.size = m.size
            /\ g.starting_lba = m.starting_lba

\* the operations on the device that follow the creation of the table
DeviceOps == SubSeq(io, 4, Len(io))
IsPrefix(p, s) == Len(p) <= Len(s) /\ SubSeq(s, 1, Len(p)) = p
Effects ==
    IF GptBuild THEN << "write_protective_mbr", "write_table", "sync_all" >>
    ELSE << "write_table", "sync_all" >>
Returned == pm_data # None

\* C14: partition_gpt writes the protective MBR, then the GPT header and
\* entries, then flushes, in this order; partition_mbr writes its table, then
\* flushes.  A builder returns Ok only after the flush has succeeded, every
\* step is attempted only after the steps before it, and a builder that failed
\* at one of the steps has performed none of the later ones and returns no
\* PartitionMapData.
C14_WriteThenFlushThenOk ==
    /\ IsPrefix(DeviceOps, Effects)
    /\ Returned <=> pc = "done"
    /\ Returned => DeviceOps = Effects
    /\ pc = "sync" => DeviceOps = SubSeq(Effects, 1, Len(Effects) - 1)
    /\ pc = "gpt_write" => DeviceOps = << "write_protective_mbr" >>
    /\ (pc = "failed" /\ error = "IoFailed") =>
           /\ DeviceOps # << >>
           /\ LoopDone(idx, device.partitions)
\* C14 witness: partition_gpt failed at the write of the table, after the
\* protective MBR and without a flush
C14_WitnessTableWriteFailed ==
    /\ GptBuild /\ pc = "failed" /\ error = "IoFailed" /\ ~Returned
    /\ DeviceOps = << "write_protective_mbr", "write_table" >>

\* C15: the PartitionMapData a builder returns carries, as root_partnum, the
\* num of the Rootfs partition, and as root_partuuid the identifier of that
\* partition: under GPT the text of the GUID that the bytes written into that
\* partition's entry stand for; under MBR the
\* text made of the disk signature of the table and of that partition number.
\* Its efi_* and boot_* slots are None.
C15_RootPartitionIdentified ==
    Returned =>
        LET pm == pm_data[1] IN
        /\ RootParts # {}
        /\ \A k \in RootParts : device.partitions[k].num = pm.root_partnum
        /\ pm.root_partnum \in DOMAIN new_table.partitions
        /\ GptBuild =>
               pm.root_partuuid =
                   to_string(guid_of_bytes(
                       new_table.partitions[pm.root_partnum].guid))
        /\ ~GptBuild =>
               pm.root_partuuid =
                   format_partuuid(signature_of_bytes(new_table.disk_id),
                                   pm.root_partnum)
        /\ pm.efi_partnum = None /\ pm.efi_partuuid = None
        /\ pm.boot_partnum = None /\ pm.boot_partuuid = None
\* C15 witness: partition_gpt returned the data of a root partition that is
\* not the first of three partitions
C15_WitnessRootNotFirst ==
    /\ Returned /\ GptBuild /\ NumParts = 3
    /\ pm_data[1].root_partnum > 1
    /\ pm_data[1].root_partuuid # to_string(NilUuid)

FifthDeclared ==
    NumParts > MbrCapacity
        \/ \E k \in 1..NumParts : device.partitions[k].num > MbrCapacity

\* C16: a spec that declares a fifth partition on an MBR device is rejected by
\* check or by partition_mbr, with nothing written to the device; partition_mbr
\* stores no entry for a partition numbered 0 or above 4 and never indexes
\* outside the four entries of the table.
C16_NoFifthMbrPartition ==
    ~GptBuild =>
        /\ FifthDeclared => (~Written /\ ~Returned /\ pc \notin {"sync", "done"})
        /\ DOMAIN new_table.partitions \subseteq 1..MbrCapacity
        /\ error # "IndexOutOfRange"
\* C16 witness: partition_mbr stored the first partition and bailed at a
\* partition numbered 5 of a spec check had accepted
C16_WitnessBailedAtFifth ==
    /\ ~GptBuild /\ Accepted /\ pc = "failed" /\ error = "ExtendedUnsupported"
    /\ Len(placed) >= 1 /\ device.partitions[idx].num = 5 /\ ~Written

\* C17: the failure of one job does not stop the jobs queued after it: when
\* the process exits, every job of the queue has been executed.
C17_FailureDoesNotStopQueue == pc = "exited" => queue = << >>

\* The run of the same builder on the same device specification, sector size
\* and device size whose every random identifier is nil: RefRun(k) is what it
\* has come to after k iterations of the partition loop, its table and the
\* error of the iteration it stopped at.
RefLoop == IF GptBuild THEN "gpt_loop" ELSE "mbr_loop"
RECURSIVE RefRun(_)
RefRun(k) ==
    IF k = 0
    THEN [table |-> [new_table EXCEPT !.partitions = << >>], err |-> "Ok"]
    ELSE LET before == RefRun(k - 1) IN
         IF before.err # "Ok" THEN before
         ELSE LET r == Iteration(RefLoop, Capacity, before.table,
                                 device.partitions[k], sector_size,
                                 device.num_partitions)
              IN  IF r.err # "Ok"
                  THEN [table |-> before.table, err |-> r.err]
                  ELSE [table |-> StoreEntry(before.table,
                                     device.partitions[k], r,
                                     IF GptBuild THEN to_bytes_le(NilUuid)
                                     ELSE << >>),
                        err |-> "Ok"]
\* the (start, size) of every entry of a table
Layout(table) ==
    [n \in DOMAIN table.partitions |->
        << table.partitions[n].starting_lba, table.partitions[n].sectors >>]
FailedInLoop ==
    pc \in {"failed", "panicked"} /\ error \in ResolveErrors \cup Panics

FirstUsable == new_table.lo + 1
LastUsable == new_table.hi - 1
Entries == DOMAIN new_table.partitions
Overlap(a, b) == a.starting_lba <= b.ending_lba /\ b.starting_lba <= a.ending_lba

\* C19: when a builder returns Ok, the entries of the table are pairwise
\* non-overlapping and every entry lies inside the usable range of the table:
\* it starts at or after the first usable sector and its end, start + size - 1,
\* is at or before the last usable sector.
C19_EntriesDisjointAndInRange ==
    Returned =>
        /\ \A n \in Entries :
               /\ new_table.partitions[n].starting_lba >= FirstUsable
               /\ new_table.partitions[n].ending_lba
                      = new_table.partitions[n].starting_lba
                            + new_table.partitions[n].sectors - 1
               /\ new_table.partitions[n].ending_lba <= LastUsable
        /\ \A n, m \in Entries :
               n # m => ~Overlap(new_table.partitions[n],
                                 new_table.partitions[m])

\* C20: every partition of a GPT spec that check accepted has a num within
\* the 128 slots of the table, and partition_gpt never stores an entry outside
\* them.
C20_GptNumsAreSlots ==
    (GptBuild /\ Accepted) =>
        /\ \A k \in 1..NumParts : device.partitions[k].num \in 1..GptCapacity
        /\ error # "IndexOutOfRange"

\* the entries of placed that stand for a size-0 partition the allocator
\* placed by first fit
FillFitted ==
    {k \in 1..Len(placed) :
        device.partitions[placed[k].pos].size = 0 /\ placed[k].how = "fit"}

\* C21: a size-0 partition placed by the allocator lies inside the last free
\* range: it starts where the last free range starts and ends one sector
\* before the last sector of that range, whatever free gap an earlier
\* partition with an explicit start has left before it.
C21_FillInsideLastFreeRange ==
    \A k \in FillFitted :
        /\ placed[k].starting_lba = placed[k].last_free[1]
        /\ placed[k].starting_lba + placed[k].size - 1
               = placed[k].last_free[1] + placed[k].last_free[2] - 2

\* ------------------------------------------------------------------------
\* Properties of sync_filesystem
\* ------------------------------------------------------------------------
SyncOpened == sync.fd >= 0
Closes ==
    {k \in 1..Len(sync.calls) : sync.calls[k] = << "close", sync.fd >>}
AnyClose == \E k \in 1..Len(sync.calls) : sync.calls[k][1] = "close"

\* C22: sync_filesystem leaks no descriptor: when it returns after a
\* successful open, whether syncfs succeeded or failed, close has been called
\* exactly once on the descriptor open returned and the process has the
\* descriptors open that it had on entry; when open failed (or was not
\* reached) no close was attempted and the function returns an error.
C22_DescriptorClosedOnce ==
    sync.pc = "returned" =>
        /\ sync.fds = sync.inherited
        /\ SyncOpened =>
               /\ Cardinality(Closes) = 1
               /\ sync.ret = IF sync.result # 0 THEN "Err" ELSE "Ok"
        /\ ~SyncOpened => (~AnyClose /\ sync.ret = "Err")
\* C22 witness: syncfs failed on descriptor 3, the descriptor was closed and
\* the function returned the error
C22_WitnessSyncfsFailed ==
    /\ sync.pc = "returned" /\ sync.ret = "Err" /\ sync.result # 0
    /\ sync.fd = 3 /\ sync.inherited = {0, 1, 2}
    /\ sync.calls = << << "open" >>, << "syncfs", 3 >>, << "close", 3 >> >>

====
